---------------------------- MODULE Spec2Model ----------------------------
(***************************************************************************)
(* Model of package mat of xgboost-go (src/mat/mat.go): the libsvm and CSV *)
(* readers, the sparse/dense conversions and the comparison utilities.     *)
(*                                                                         *)
(* Text is a sequence of one-character strings.  A float64 that comes out  *)
(* of strconv.ParseFloat is the exact decimal <<m, e>> = m / 10^e, with    *)
(* trailing zeros removed.  The vectors handed to IsEqualVectors and the   *)
(* RMSE functions hold integers; those handed to GetVectorMaxIdx hold      *)
(* integers and the infinities.  NaN appears only as a result.  A parsed   *)
(* column index, which may need more than 31 bits, is a pair <<hi, lo>>    *)
(* standing for hi * 2^16 + lo.                                            *)
(***************************************************************************)
EXTENDS Integers, Sequences, FiniteSets, TLC

VARIABLES
    input,        \* the file as it was written: its lines and its ending
    file,         \* content of the file named fileName
    delimiter,    \* ReadCSVFileToDenseMatrix: delimiter
    defaultVal,   \* ReadCSVFileToDenseMatrix: defaultVal
    intBits,      \* width of Go's int on the build: 32 or 64
    pos,          \* offset of the bufio.Reader in the file
    pc,           \* position of the running call
    sparseMatrix, \* ReadLibsvmFileToSparseMatrix: sparseMatrix.Vectors
    matrix,       \* ReadCSVFileToDenseMatrix: matrix.Vectors
    colDim,       \* ReadCSVFileToDenseMatrix: colDim
    row,          \* ReadCSVFileToDenseMatrix: row
    args,         \* arguments of a call of a utility function
    ret           \* what the call returned

vars == <<input, file, delimiter, defaultVal, intBits, pos, pc,
          sparseMatrix, matrix, colDim, row, args, ret>>

\* ------------------------------------------------------------------ bounds

\* Most lines in a file.
MaxLines == 3

\* Most elements of a vector handed to IsEqualVectors and GetVectorRMSE.
MaxVecLen == 3

\* Most elements of a vector handed to GetVectorMaxIdx.
MaxIdxLen == 4

\* Most rows of a matrix handed to IsEqualMatrices and GetMatrixRMSE.
MaxRows == 3

\* Most rows and most columns of the data handed to GetSparseMatrixFromSlice.
MaxDataRows == 2
MaxDataCols == 2

\* ------------------------------------------------------------------ text

Digits == {"0", "1", "2", "3", "4", "5", "6", "7", "8", "9"}

DigitVal(c) ==
    CASE c = "0" -> 0 [] c = "1" -> 1 [] c = "2" -> 2 [] c = "3" -> 3
      [] c = "4" -> 4 [] c = "5" -> 5 [] c = "6" -> 6 [] c = "7" -> 7
      [] c = "8" -> 8 [] c = "9" -> 9

\* unicode.IsSpace on the characters the files hold.
IsSpace(c) == c \in {" ", "\t", "\n", "\r"}

RECURSIVE TrimLeft(_)
TrimLeft(s) ==
    IF s # <<>> /\ IsSpace(Head(s)) THEN TrimLeft(Tail(s)) ELSE s

RECURSIVE TrimRight(_)
TrimRight(s) ==
    IF s # <<>> /\ IsSpace(s[Len(s)])
    THEN TrimRight(SubSeq(s, 1, Len(s) - 1))
    ELSE s

\* strings.TrimSpace
TrimSpace(s) == TrimRight(TrimLeft(s))

HasPrefixAt(s, sep, i) ==
    /\ i + Len(sep) - 1 <= Len(s)
    /\ SubSeq(s, i, i + Len(sep) - 1) = sep

RECURSIVE SplitFrom(_, _, _, _)
SplitFrom(s, sep, i, start) ==
    IF i > Len(s) THEN <<SubSeq(s, start, Len(s))>>
    ELSE IF HasPrefixAt(s, sep, i)
         THEN <<SubSeq(s, start, i - 1)>>
              \o SplitFrom(s, sep, i + Len(sep), i + Len(sep))
         ELSE SplitFrom(s, sep, i + 1, start)

\* strings.Split: the pieces of s between the occurrences of sep; an empty
\* sep explodes s into its characters.
Split(s, sep) ==
    IF sep = <<>> THEN [k \in 1..Len(s) |-> <<s[k]>>]
    ELSE SplitFrom(s, sep, 1, 1)

\* ------------------------------------------------------------------ strconv

\* 2^16: a wide integer is <<hi, lo>> = hi * Half + lo
Half == 256 * 256

RECURSIVE UintFrom(_, _, _, _)
UintFrom(s, i, hi, lo) ==
    IF i > Len(s) THEN [err |-> "nil", val |-> <<hi, lo>>]
    ELSE IF s[i] \notin Digits THEN [err |-> "syntax", val |-> <<0, 0>>]
    ELSE LET l  == lo * 10 + DigitVal(s[i])
             h  == hi * 10 + (l \div Half)
         IN  IF h >= Half
             THEN [err |-> "range", val |-> <<Half - 1, Half - 1>>]
             ELSE UintFrom(s, i + 1, h, l % Half)

\* strconv.ParseUint(s, 10, 32): decimal digits only, at most 2^32 - 1.
ParseUint32(s) ==
    IF s = <<>> THEN [err |-> "syntax", val |-> <<0, 0>>]
    ELSE UintFrom(s, 1, 0, 0)

\* int(colIdx) of a uint64 below 2^32: unchanged when int has 64 bits, and
\* reduced modulo 2^32 into the signed range when it has 32.
ToInt(u, bits) ==
    IF bits = 32 /\ u[1] >= Half \div 2 THEN <<u[1] - Half, u[2]>> ELSE u

RECURSIVE Normal(_)
Normal(f) ==
    IF f[1] = 0 THEN <<0, 0>>
    ELSE IF f[2] > 0 /\ f[1] % 10 = 0 THEN Normal(<<f[1] \div 10, f[2] - 1>>)
    ELSE f

RECURSIVE DecimalFrom(_, _, _, _, _, _)
DecimalFrom(s, i, m, e, dot, nd) ==
    IF i > Len(s)
    THEN IF nd = 0 THEN [err |-> "syntax", val |-> <<0, 0>>]
         ELSE [err |-> "nil", val |-> <<m, e>>]
    ELSE IF s[i] = "."
         THEN IF dot THEN [err |-> "syntax", val |-> <<0, 0>>]
              ELSE DecimalFrom(s, i + 1, m, e, TRUE, nd)
    ELSE IF s[i] \in Digits
         THEN DecimalFrom(s, i + 1, m * 10 + DigitVal(s[i]),
                          IF dot THEN e + 1 ELSE e, dot, nd + 1)
    ELSE [err |-> "syntax", val |-> <<0, 0>>]

\* strconv.ParseFloat(s, 64) on the characters the files hold: an optional
\* sign, digits with at most one point and at least one digit.
ParseFloat(s) ==
    LET neg  == s # <<>> /\ Head(s) = "-"
        body == IF s # <<>> /\ Head(s) \in {"-", "+"} THEN Tail(s) ELSE s
        r    == DecimalFrom(body, 1, 0, 0, FALSE, 0)
    IN  IF r.err # "nil" THEN r
        ELSE [err |-> "nil",
              val |-> Normal(<<IF neg THEN 0 - r.val[1] ELSE r.val[1], r.val[2]>>)]

\* ------------------------------------------------------------------ bufio

NextNewline(f, p) ==
    IF \E k \in (p + 1)..Len(f) : f[k] = "\n"
    THEN CHOOSE k \in (p + 1)..Len(f) :
            /\ f[k] = "\n"
            /\ \A j \in (p + 1)..(k - 1) : f[j] # "\n"
    ELSE 0

\* reader.ReadString('\n') at offset p: the text up to and including the
\* next line break, or the rest of the file together with io.EOF.
ReadString(f, p) ==
    LET k == NextNewline(f, p)
    IN  IF k = 0
        THEN [line |-> SubSeq(f, p + 1, Len(f)), err |-> "EOF", pos |-> Len(f)]
        ELSE [line |-> SubSeq(f, p + 1, k), err |-> "nil", pos |-> k]

\* ------------------------------------------------------------------ errors

\* An error value: what kind it is, the text it quotes, and the row index and
\* row length it reports (-1 when it reports none).
NoErr == [kind |-> "nil", text |-> <<>>, row |-> -1, width |-> -1]

Err(kind, text) == [kind |-> kind, text |-> text, row |-> -1, width |-> -1]

\* Mutant of WidthErr: the row is counted from 1.
WidthErrOneBased(r, w) ==
    [kind |-> "different dimension", text |-> <<>>, row |-> r + 1, width |-> w]

WidthErr(r, w) ==
    [kind |-> "different dimension", text |-> <<>>, row |-> r, width |-> w]

\* ------------------------------------------------------------------ libsvm

\* SparseVector{}
EmptyVec == [k \in {} |-> <<0, 0>>]

\* vec[idx] = val
Store(vec, idx, val) ==
    [k \in (DOMAIN vec) \cup {idx} |-> IF k = idx THEN val ELSE vec[k]]

\* The loop over tokens[1:] of one line: each token an index:value pair.
RECURSIVE PairsFrom(_, _, _, _)
PairsFrom(tokens, c, vec, bits) ==
    IF c > Len(tokens) THEN [err |-> NoErr, vec |-> vec]
    ELSE IF Len(tokens[c]) = 0
         THEN [err |-> Err("corrupted data format", <<>>), vec |-> EmptyVec]
    ELSE LET pair == Split(tokens[c], <<":">>)
         IN  IF Len(pair) # 2
             THEN [err |-> Err("wrong data format", tokens[c]), vec |-> EmptyVec]
             ELSE LET colIdx == ParseUint32(pair[1])
                      val    == ParseFloat(pair[2])
                  IN  IF colIdx.err # "nil"
                      THEN [err |-> Err("cannot parse to int", pair[1]),
                            vec |-> EmptyVec]
                      ELSE IF val.err # "nil"
                      THEN [err |-> Err("cannot parse to float", pair[2]),
                            vec |-> EmptyVec]
                      ELSE PairsFrom(tokens, c + 1,
                                     Store(vec, ToInt(colIdx.val, bits), val.val),
                                     bits)

\* One trimmed, non-empty line of a libsvm file: the label is skipped.
LibsvmRow(line, bits) ==
    LET tokens == Split(line, <<" ">>)
    IN  IF Len(tokens) < 2
        THEN [err |-> Err("too few columns", <<>>), vec |-> EmptyVec]
        ELSE PairsFrom(tokens, 2, EmptyVec, bits)

\* os.Open fails: ReadLibsvmFileToSparseMatrix returns before any read.
LibsvmOpenError ==
    /\ pc = "libsvm_open"
    /\ pc' = "libsvm_done"
    /\ ret' = [m |-> <<>>, err |-> Err("unable to open", <<>>)]
    /\ UNCHANGED <<input, file, delimiter, defaultVal, intBits, pos,
                   sparseMatrix, matrix, colDim, row, args>>

LibsvmOpen ==
    /\ pc = "libsvm_open"
    /\ pc' = "libsvm"
    /\ UNCHANGED <<input, file, delimiter, defaultVal, intBits, pos,
                   sparseMatrix, matrix, colDim, row, args, ret>>

\* reader.ReadString fails with an error that is not io.EOF.
LibsvmReadError ==
    /\ pc = "libsvm"
    /\ pc' = "libsvm_done"
    /\ ret' = [m |-> <<>>, err |-> Err("read", <<>>)]
    /\ UNCHANGED <<input, file, delimiter, defaultVal, intBits, pos,
                   sparseMatrix, matrix, colDim, row, args>>

\* reader.ReadString returns io.EOF: the loop ends, whatever came with it.
LibsvmEOF ==
    /\ pc = "libsvm"
    /\ LET r == ReadString(file, pos)
       IN  /\ r.err = "EOF"
           /\ pos' = r.pos
    /\ pc' = "libsvm_done"
    /\ ret' = [m |-> sparseMatrix, err |-> NoErr]
    /\ UNCHANGED <<input, file, delimiter, defaultVal, intBits,
                   sparseMatrix, matrix, colDim, row, args>>

\* A line that is empty once trimmed ends the loop.
LibsvmBlank ==
    /\ pc = "libsvm"
    /\ LET r == ReadString(file, pos)
       IN  /\ r.err = "nil"
           /\ TrimSpace(r.line) = <<>>
           /\ pos' = r.pos
    /\ pc' = "libsvm_done"
    /\ ret' = [m |-> sparseMatrix, err |-> NoErr]
    /\ UNCHANGED <<input, file, delimiter, defaultVal, intBits,
                   sparseMatrix, matrix, colDim, row, args>>

\* A line that does not parse: the call returns SparseMatrix{} and the error.
LibsvmBadRow ==
    /\ pc = "libsvm"
    /\ LET r == ReadString(file, pos)
           v == LibsvmRow(TrimSpace(r.line), intBits)
       IN  /\ r.err = "nil"
           /\ TrimSpace(r.line) # <<>>
           /\ v.err # NoErr
           /\ pos' = r.pos
           /\ ret' = [m |-> <<>>, err |-> v.err]
    /\ pc' = "libsvm_done"
    /\ UNCHANGED <<input, file, delimiter, defaultVal, intBits,
                   sparseMatrix, matrix, colDim, row, args>>

\* A line that parses: its vector is appended.
LibsvmAppend ==
    /\ pc = "libsvm"
    /\ LET r == ReadString(file, pos)
           v == LibsvmRow(TrimSpace(r.line), intBits)
       IN  /\ r.err = "nil"
           /\ TrimSpace(r.line) # <<>>
           /\ v.err = NoErr
           /\ pos' = r.pos
           /\ sparseMatrix' = Append(sparseMatrix, v.vec)
    /\ UNCHANGED <<input, file, delimiter, defaultVal, intBits, pc,
                   matrix, colDim, row, args, ret>>

\* ------------------------------------------------------------------ csv

\* The loop over the tokens of one line.
RECURSIVE FieldsFrom(_, _, _, _)
FieldsFrom(tokens, i, vec, def) ==
    IF i > Len(tokens) THEN [err |-> NoErr, vec |-> vec]
    ELSE IF Len(tokens[i]) = 0
         THEN FieldsFrom(tokens, i + 1, Append(vec, def), def)
    ELSE LET v == ParseFloat(tokens[i])
         IN  IF v.err # "nil"
             THEN [err |-> Err("cannot convert to float", tokens[i]), vec |-> <<>>]
             ELSE FieldsFrom(tokens, i + 1, Append(vec, v.val), def)

\* One trimmed, non-empty line of a CSV file.
CSVRow(line, delim, def) == FieldsFrom(Split(line, delim), 1, <<>>, def)

CSVOpenError ==
    /\ pc = "csv_open"
    /\ pc' = "csv_done"
    /\ ret' = [m |-> <<>>, err |-> Err("unable to open", <<>>)]
    /\ UNCHANGED <<input, file, delimiter, defaultVal, intBits, pos,
                   sparseMatrix, matrix, colDim, row, args>>

CSVOpen ==
    /\ pc = "csv_open"
    /\ pc' = "csv"
    /\ UNCHANGED <<input, file, delimiter, defaultVal, intBits, pos,
                   sparseMatrix, matrix, colDim, row, args, ret>>

\* reader.ReadString fails with an error that is not io.EOF.
CSVReadError ==
    /\ pc = "csv"
    /\ pc' = "csv_done"
    /\ ret' = [m |-> <<>>, err |-> Err("read", <<>>)]
    /\ UNCHANGED <<input, file, delimiter, defaultVal, intBits, pos,
                   sparseMatrix, matrix, colDim, row, args>>

\* A line that is empty once trimmed (the end of the file reads as one)
\* ends the loop.
CSVBlank ==
    /\ pc = "csv"
    /\ LET r == ReadString(file, pos)
       IN  /\ TrimSpace(r.line) = <<>>
           /\ pos' = r.pos
    /\ pc' = "csv_done"
    /\ ret' = [m |-> matrix, err |-> NoErr]
    /\ UNCHANGED <<input, file, delimiter, defaultVal, intBits,
                   sparseMatrix, matrix, colDim, row, args>>

\* A field that is not a number: the call returns Matrix{} and the error.
CSVBadField ==
    /\ pc = "csv"
    /\ LET r == ReadString(file, pos)
           v == CSVRow(TrimSpace(r.line), delimiter, defaultVal)
       IN  /\ TrimSpace(r.line) # <<>>
           /\ v.err # NoErr
           /\ pos' = r.pos
           /\ ret' = [m |-> <<>>, err |-> v.err]
    /\ pc' = "csv_done"
    /\ UNCHANGED <<input, file, delimiter, defaultVal, intBits,
                   sparseMatrix, matrix, colDim, row, args>>

\* A row whose length is not colDim: Matrix{} and the row's index and length.
CSVBadWidth ==
    /\ pc = "csv"
    /\ LET r == ReadString(file, pos)
           v == CSVRow(TrimSpace(r.line), delimiter, defaultVal)
       IN  /\ TrimSpace(r.line) # <<>>
           /\ v.err = NoErr
           /\ colDim # -1
           /\ colDim # Len(v.vec)
           /\ pos' = r.pos
           /\ ret' = [m |-> <<>>,
                      err |-> WidthErr(row, Len(v.vec))]
    /\ pc' = "csv_done"
    /\ UNCHANGED <<input, file, delimiter, defaultVal, intBits,
                   sparseMatrix, matrix, colDim, row, args>>

\* A row of the right length (the first row sets colDim) is appended.
CSVAppend ==
    /\ pc = "csv"
    /\ LET r == ReadString(file, pos)
           v == CSVRow(TrimSpace(r.line), delimiter, defaultVal)
       IN  /\ TrimSpace(r.line) # <<>>
           /\ v.err = NoErr
           /\ colDim = -1 \/ colDim = Len(v.vec)
           /\ pos' = r.pos
           /\ colDim' = Len(v.vec)
           /\ matrix' = Append(matrix, v.vec)
    /\ row' = row + 1
    /\ UNCHANGED <<input, file, delimiter, defaultVal, intBits, pc,
                   sparseMatrix, args, ret>>

\* ------------------------------------------------------------------ files

\* A file as it was written: a sequence of lines, each with its text, and
\* whether a line break follows the last line.
RECURSIVE JoinFrom(_, _, _)
JoinFrom(texts, i, sep) ==
    IF i > Len(texts) THEN <<>>
    ELSE IF i = Len(texts) THEN texts[i]
    ELSE texts[i] \o sep \o JoinFrom(texts, i + 1, sep)

FileText(texts, nl) ==
    JoinFrom(texts, 1, <<"\n">>) \o (IF nl THEN <<"\n">> ELSE <<>>)

SeqsUpTo(S, n) == UNION {[1..k -> S] : k \in 0..n}

\* Lines of libsvm files.  kind "row": a label and index:value pairs, with
\* the entries the line denotes (index <<hi, lo>> to value) and the number
\* of bits its largest index needs (31, 32, or 33 for more); kind "blank":
\* empty once trimmed; kind "bad": malformed.
SparseRow(text, entries, bits) ==
    [text |-> text, kind |-> "row", entries |-> entries, bits |-> bits]

SparseOther(text, kind) ==
    [text |-> text, kind |-> kind, entries |-> EmptyVec, bits |-> 0]

SparseLines ==
    { SparseRow(<<"1", " ", "3", ":", "0", ".", "5", " ", "7", ":", "2", ".", "0">>,
                (<<0, 3>> :> <<5, 1>>) @@ (<<0, 7>> :> <<2, 0>>), 31),
      SparseRow(<<"0", " ", "0", ":", "1">>, (<<0, 0>> :> <<1, 0>>), 31),
      SparseRow(<<"1", " ", "0", "5", ":", "-", "2", ".", "5", "0", "\r">>,
                (<<0, 5>> :> <<-25, 1>>), 31),
      SparseRow(<<"1", " ", "2", "1", "4", "7", "4", "8", "3", "6", "4", "8", ":", "1">>,
                (<<32768, 0>> :> <<1, 0>>), 32),
      SparseRow(<<"1", " ", "4", "2", "9", "4", "9", "6", "7", "2", "9", "6", ":", "1">>,
                (<<65536, 0>> :> <<1, 0>>), 33),
      SparseOther(<<>>, "blank"),
      SparseOther(<<" ">>, "blank"),
      SparseOther(<<"1">>, "bad"),
      SparseOther(<<"1", " ", " ", "3", ":", "1">>, "bad"),
      SparseOther(<<"1", " ", "3", ":", "1", ":", "2">>, "bad"),
      SparseOther(<<"1", " ", "3", ":", "0", ".", "5", " ", ":", "2", ".", "0">>, "bad"),
      SparseOther(<<"1", " ", "3", ":", "x">>, "bad") }

Texts(lines) == [i \in 1..Len(lines) |-> lines[i].text]

InitLibsvm ==
    /\ input \in [lines : SeqsUpTo(SparseLines, MaxLines), nl : BOOLEAN]
    /\ file = FileText(Texts(input.lines), input.nl)
    /\ intBits \in {32, 64}
    /\ pos = 0
    /\ pc = "libsvm_open"
    /\ sparseMatrix = <<>>
    /\ delimiter = <<>>
    /\ defaultVal = <<0, 0>>
    /\ matrix = <<>>
    /\ colDim = -1
    /\ row = 0
    /\ args = <<>>
    /\ ret = [m |-> <<>>, err |-> NoErr]

NextLibsvm ==
    \/ LibsvmOpenError
    \/ LibsvmOpen
    \/ LibsvmReadError
    \/ LibsvmEOF
    \/ LibsvmBlank
    \/ LibsvmBadRow
    \/ LibsvmAppend

SpecLibsvm == InitLibsvm /\ [][NextLibsvm]_vars

\* Fields of CSV lines: the text, and what it denotes.
Num(text, val) == [text |-> text, kind |-> "num", val |-> val]

EmptyField == [text |-> <<>>, kind |-> "empty", val |-> <<0, 0>>]

BadField == [text |-> <<"x">>, kind |-> "bad", val |-> <<0, 0>>]

N1 == Num(<<"1">>, <<1, 0>>)
N2 == Num(<<"2">>, <<2, 0>>)
N3 == Num(<<"3", ".", "0">>, <<3, 0>>)
N4 == Num(<<"4">>, <<4, 0>>)
N5 == Num(<<"-", ".", "5">>, <<-5, 1>>)
N6 == Num(<<"6">>, <<6, 0>>)

\* Lines of CSV files, each the sequence of its delimiter-separated fields.
DenseLines ==
    { <<N1, N2, N3>>,
      <<N4, EmptyField, N6>>,
      <<N4, N5>>,
      <<EmptyField, N5, EmptyField>>,
      <<N4, BadField>>,
      <<BadField, N5, N6>>,
      <<N6, N5>>,
      <<EmptyField>> }

Delimiters == {<<",">>, <<"\t">>, <<" ">>}

Defaults == {<<0, 0>>, <<9, 0>>}

FieldTexts(l) == [i \in 1..Len(l) |-> l[i].text]

\* The text of a line: its fields with the delimiter between them.
LineText(l, delim) == JoinFrom(FieldTexts(l), 1, delim)

DenseTexts(lines, delim) == [i \in 1..Len(lines) |-> LineText(lines[i], delim)]

InitCSV ==
    /\ input \in [lines : SeqsUpTo(DenseLines, MaxLines), nl : BOOLEAN]
    /\ delimiter \in Delimiters
    /\ defaultVal \in Defaults
    /\ file = FileText(DenseTexts(input.lines, delimiter), input.nl)
    /\ intBits = 64
    /\ pos = 0
    /\ pc = "csv_open"
    /\ sparseMatrix = <<>>
    /\ matrix = <<>>
    /\ colDim = -1
    /\ row = 0
    /\ args = <<>>
    /\ ret = [m |-> <<>>, err |-> NoErr]

NextCSV ==
    \/ CSVOpenError
    \/ CSVOpen
    \/ CSVReadError
    \/ CSVBlank
    \/ CSVBadField
    \/ CSVBadWidth
    \/ CSVAppend

SpecCSV == InitCSV /\ [][NextCSV]_vars

\* Both readers, for what is said of the two together.
SpecReaders == (InitLibsvm \/ InitCSV) /\ [][NextLibsvm \/ NextCSV]_vars

\* ------------------------------------------------------------------ what the files denote

IOKinds == {"unable to open", "read"}

\* Offset of the end of line i of the file, its line break included.
RECURSIVE EndOffset(_, _, _)
EndOffset(texts, nl, i) ==
    IF i = 0 THEN 0
    ELSE EndOffset(texts, nl, i - 1) + Len(texts[i])
         + (IF i < Len(texts) \/ nl THEN 1 ELSE 0)

\* Libsvm: the lines before the first blank line.
SparseIngested(lines) ==
    IF \E i \in 1..Len(lines) : lines[i].kind = "blank"
    THEN SubSeq(lines, 1,
                (CHOOSE i \in 1..Len(lines) :
                    /\ lines[i].kind = "blank"
                    /\ \A j \in 1..(i - 1) : lines[j].kind # "blank") - 1)
    ELSE lines

\* CSV: the fields a line yields to the reader.  The reader trims the line
\* before it splits it, so with a delimiter that is white space the empty
\* fields at either end of the line are gone.
RECURSIVE DropEmptyHead(_)
DropEmptyHead(l) ==
    IF l # <<>> /\ Head(l).kind = "empty" THEN DropEmptyHead(Tail(l)) ELSE l

RECURSIVE DropEmptyLast(_)
DropEmptyLast(l) ==
    IF l # <<>> /\ l[Len(l)].kind = "empty"
    THEN DropEmptyLast(SubSeq(l, 1, Len(l) - 1))
    ELSE l

Yielded(l, delim) ==
    IF IsSpace(delim[1]) THEN DropEmptyLast(DropEmptyHead(l)) ELSE l

DenseBlank(l, delim) == Yielded(l, delim) \in {<<>>, <<EmptyField>>}

DenseIngested(lines, delim) ==
    IF \E i \in 1..Len(lines) : DenseBlank(lines[i], delim)
    THEN SubSeq(lines, 1,
                (CHOOSE i \in 1..Len(lines) :
                    /\ DenseBlank(lines[i], delim)
                    /\ \A j \in 1..(i - 1) : ~DenseBlank(lines[j], delim)) - 1)
    ELSE lines

HasBadField(l) == \E j \in 1..Len(l) : l[j].kind = "bad"

\* The row a sequence of fields denotes: the default for an empty field, the
\* number for any other.
RowOf(l, def) ==
    [j \in 1..Len(l) |-> IF l[j].kind = "empty" THEN def ELSE l[j].val]

\* ------------------------------------------------------------------ C1

DenseDone == pc = "csv_done" /\ ret.err.kind \notin IOKinds

\* Every returned row is as long as row 0, and as long as its line has
\* fields: none is truncated or padded.
SameWidths ==
    ret.err = NoErr =>
        \A i \in 1..Len(ret.m) :
            /\ Len(ret.m[i]) = Len(ret.m[1])
            /\ Len(ret.m[i]) = Len(Yielded(input.lines[i], delimiter))

\* The lines whose number of fields is not the first line's.
Mismatched ==
    LET ing == DenseIngested(input.lines, delimiter)
    IN  {i \in 1..Len(ing) :
            Len(Yielded(ing[i], delimiter)) # Len(Yielded(ing[1], delimiter))}

\* C1 as stated: a call that returns without error returns rows of one
\* length, and a file with a line whose number of fields is not the first
\* line's makes the call return the error that names such a line's 0-based
\* index and its width.
C1_AsStated ==
    DenseDone =>
        /\ SameWidths
        /\ Mismatched # {} =>
              \E i \in Mismatched :
                 LET ing == DenseIngested(input.lines, delimiter)
                 IN  ret = [m |-> <<>>,
                            err |-> [kind |-> "different dimension", text |-> <<>>,
                                     row |-> i - 1,
                                     width |-> Len(Yielded(ing[i], delimiter))]]

\* C1 as amended: a call that returns without error returns rows of one
\* length; and when the first line whose number of fields (as the reader
\* splits the trimmed line) is not the first line's comes with no non-numeric
\* field in it or before it, the call returns no rows and the error that
\* names that line's 0-based index and its width.
C1_WidthInvariant ==
    DenseDone =>
        /\ SameWidths
        /\ \A i \in Mismatched :
              LET ing == DenseIngested(input.lines, delimiter)
              IN  /\ \A j \in 1..(i - 1) : j \notin Mismatched
                  /\ \A j \in 1..i : ~HasBadField(Yielded(ing[j], delimiter))
                  => ret = [m |-> <<>>,
                            err |-> [kind |-> "different dimension", text |-> <<>>,
                                     row |-> i - 1,
                                     width |-> Len(Yielded(ing[i], delimiter))]]

\* Rows "1,2,3" then "4,5": the error names row 1 and width 2.
C1_Witness ==
    /\ DenseDone
    /\ delimiter = <<",">>
    /\ Len(input.lines) >= 2
    /\ input.lines[1] = <<N1, N2, N3>>
    /\ input.lines[2] = <<N4, N5>>
    /\ ret.err.kind = "different dimension"
    /\ ret.err.row = 1
    /\ ret.err.width = 2

\* ------------------------------------------------------------------ C2

SparseDone == pc = "libsvm_done" /\ ret.err.kind \notin IOKinds

\* C2: a file whose lines before the first blank line are all well formed
\* (with indices the reader's integers hold) gives one row per such line, in
\* file order, whether or not a line break ends the last of them.
C2_RowCount ==
    LET ing == SparseIngested(input.lines)
    IN  (/\ SparseDone
         /\ \A i \in 1..Len(ing) : ing[i].kind = "row" /\ ing[i].bits = 31)
        => /\ ret.err = NoErr
           /\ Len(ret.m) = Len(ing)
           /\ \A i \in 1..Len(ing) : ret.m[i] = ing[i].entries

\* ------------------------------------------------------------------ C3

\* C3: each line made of a label and index:value pairs, the index of any
\* magnitude, gives the vector that maps exactly the line's indices,
\* unchanged, to their values.  (Said of the lines a line break ends.)
C3_RowContents ==
    LET ing == SparseIngested(input.lines)
    IN  (/\ SparseDone
         /\ \A i \in 1..Len(ing) : ing[i].kind = "row")
        => \A i \in 1..Len(ing) :
              (i < Len(input.lines) \/ input.nl)
              => /\ Len(ret.m) >= i
                 /\ ret.m[i] = ing[i].entries

\* ------------------------------------------------------------------ C4

\* The first malformed line before the first blank line, or 0.
SparseFirstBad ==
    LET ing == SparseIngested(input.lines)
    IN  IF \E i \in 1..Len(ing) : ing[i].kind = "bad"
        THEN CHOOSE i \in 1..Len(ing) :
                /\ ing[i].kind = "bad"
                /\ \A j \in 1..(i - 1) : ing[j].kind # "bad"
        ELSE 0

DenseBad(i) ==
    LET ing == DenseIngested(input.lines, delimiter)
    IN  \/ HasBadField(Yielded(ing[i], delimiter))
        \/ Len(Yielded(ing[i], delimiter)) # Len(Yielded(ing[1], delimiter))

DenseFirstBad ==
    LET ing == DenseIngested(input.lines, delimiter)
    IN  IF \E i \in 1..Len(ing) : DenseBad(i)
        THEN CHOOSE i \in 1..Len(ing) :
                DenseBad(i) /\ \A j \in 1..(i - 1) : ~DenseBad(j)
        ELSE 0

C4_Sparse ==
    LET ing == SparseIngested(input.lines)
    IN  (/\ SparseDone
         /\ SparseFirstBad # 0
         /\ \A j \in 1..(SparseFirstBad - 1) : ing[j].bits <= 32)
        => /\ ret.err # NoErr
           /\ ret.m = <<>>
           /\ pos = EndOffset(Texts(input.lines), input.nl, SparseFirstBad)

C4_Dense ==
    (DenseDone /\ DenseFirstBad # 0)
    => /\ ret.err # NoErr
       /\ ret.m = <<>>
       /\ pos = EndOffset(DenseTexts(input.lines, delimiter), input.nl,
                          DenseFirstBad)

C4_NoRowsWithError ==
    (pc \in {"libsvm_done", "csv_done"} /\ ret.err # NoErr) => ret.m = <<>>

\* C4: in both readers the first malformed line makes the call return an
\* error and no rows, with nothing read past that line; and an error never
\* comes with rows.
C4_FailFast == C4_Sparse /\ C4_Dense /\ C4_NoRowsWithError

\* ------------------------------------------------------------------ C6

\* C6: with any delimiter, each returned row has one element per
\* delimiter-separated field of its line, in order: the default for an empty
\* field (a leading or trailing one too), the parsed number for any other.
C6_FieldMapping ==
    (DenseDone /\ ret.err = NoErr)
    => \A i \in 1..Len(ret.m) : ret.m[i] = RowOf(input.lines[i], defaultVal)

\* ------------------------------------------------------------------ comparison

\* math.Abs
Abs(x) == IF x < 0 THEN 0 - x ELSE x

\* The error of IsEqualVectors and GetVectorRMSE: a length mismatch reports
\* both lengths (a, b), an element mismatch its index i and both values.
VecNil == [kind |-> "nil", i |-> -1, a |-> 0, b |-> 0]

LengthErr(n1, n2) == [kind |-> "different vector length", i |-> -1, a |-> n1, b |-> n2]

ElementErr(i, x, y) == [kind |-> "element mismatch", i |-> i, a |-> x, b |-> y]

\* Mutant of EqualFrom: a difference equal to the threshold is a mismatch.
RECURSIVE EqualFromGE(_, _, _, _)
EqualFromGE(v1, v2, threshold, k) ==
    IF k > Len(v1) THEN VecNil
    ELSE IF Abs(v1[k] - v2[k]) >= threshold THEN ElementErr(k - 1, v1[k], v2[k])
    ELSE EqualFromGE(v1, v2, threshold, k + 1)

\* The loop of IsEqualVectors from element k (counted from 1).
RECURSIVE EqualFrom(_, _, _, _)
EqualFrom(v1, v2, threshold, k) ==
    IF k > Len(v1) THEN VecNil
    ELSE IF Abs(v1[k] - v2[k]) > threshold THEN ElementErr(k - 1, v1[k], v2[k])
    ELSE EqualFrom(v1, v2, threshold, k + 1)

IsEqualVectors(v1, v2, threshold) ==
    IF Len(v1) # Len(v2) THEN LengthErr(Len(v1), Len(v2))
    ELSE EqualFrom(v1, v2, threshold, 1)

\* The error of IsEqualMatrices and GetMatrixRMSE: a row-count mismatch
\* reports both counts (a, b); a row's error is wrapped with the row's index.
MatNil == [kind |-> "nil", index |-> -1, a |-> 0, b |-> 0, cause |-> VecNil]

RowsErr(n1, n2) ==
    [kind |-> "row matrix mismatch", index |-> -1, a |-> n1, b |-> n2,
     cause |-> VecNil]

\* errors.Wrap(err, "matrix comparison at index i")
Wrap(err, i) ==
    [kind |-> "matrix comparison at index", index |-> i, a |-> 0, b |-> 0,
     cause |-> err]

\* Mutant of EqualRowsFrom: the loop runs on after a failure, and the last
\* failing row is the one reported.
RECURSIVE EqualRowsFromLast(_, _, _, _)
EqualRowsFromLast(m1, m2, threshold, k) ==
    IF k > Len(m1) THEN MatNil
    ELSE LET err  == IsEqualVectors(m1[k], m2[k], threshold)
             rest == EqualRowsFromLast(m1, m2, threshold, k + 1)
         IN  IF rest # MatNil THEN rest
             ELSE IF err # VecNil THEN Wrap(err, k - 1)
             ELSE MatNil

\* The loop of IsEqualMatrices from row k (counted from 1).
RECURSIVE EqualRowsFrom(_, _, _, _)
EqualRowsFrom(m1, m2, threshold, k) ==
    IF k > Len(m1) THEN MatNil
    ELSE LET err == IsEqualVectors(m1[k], m2[k], threshold)
         IN  IF err # VecNil THEN Wrap(err, k - 1)
             ELSE EqualRowsFrom(m1, m2, threshold, k + 1)

IsEqualMatrices(m1, m2, threshold) ==
    IF Len(m1) # Len(m2) THEN RowsErr(Len(m1), Len(m2))
    ELSE EqualRowsFrom(m1, m2, threshold, 1)

\* ------------------------------------------------------------------ arg-max

\* A float64 that may be infinite.
Fin(n) == [k |-> "fin", v |-> n]
NegInf == [k |-> "-inf", v |-> 0]
PosInf == [k |-> "+inf", v |-> 0]

\* x > y on float64 values that are not NaN.
FGt(x, y) ==
    CASE x.k = "-inf" -> FALSE
      [] x.k = "+inf" -> y.k # "+inf"
      [] OTHER        -> y.k = "-inf" \/ (y.k = "fin" /\ x.v > y.v)

\* Mutant of MaxFrom: an element equal to the running maximum replaces it.
RECURSIVE MaxFromGE(_, _, _, _)
MaxFromGE(v, k, maxVal, r) ==
    IF k > Len(v) THEN r
    ELSE IF ~FGt(maxVal, v[k]) THEN MaxFromGE(v, k + 1, v[k], k - 1)
    ELSE MaxFromGE(v, k + 1, maxVal, r)

\* The loop of GetVectorMaxIdx from element k (counted from 1).
RECURSIVE MaxFrom(_, _, _, _)
MaxFrom(v, k, maxVal, r) ==
    IF k > Len(v) THEN r
    ELSE IF FGt(v[k], maxVal) THEN MaxFrom(v, k + 1, v[k], k - 1)
    ELSE MaxFrom(v, k + 1, maxVal, r)

GetVectorMaxIdx(v) ==
    IF Len(v) = 0 THEN [r |-> -1, err |-> "empty vector"]
    ELSE [r |-> MaxFrom(v, 1, NegInf, 0), err |-> "nil"]

\* ------------------------------------------------------------------ rmse

\* The float64 results of the RMSE functions: NaN, or a number kept as the
\* expression that yields it (a square root of a quotient; a quotient of a
\* sum of such roots).
NaN == [k |-> "nan", num |-> 0, den |-> 0, terms |-> <<>>]

\* The 0 returned beside an error.
Zero == [k |-> "zero", num |-> 0, den |-> 1, terms |-> <<>>]

\* math.Sqrt(sum / float64(n)): 0/0 is NaN, and so is its root.
SqrtOfQuotient(sum, n) ==
    IF n = 0 THEN NaN   \* sum is 0.0 when there is no element
    ELSE [k |-> "sqrt", num |-> sum, den |-> n, terms |-> <<>>]

RECURSIVE SumSquares(_, _, _)
SumSquares(v1, v2, k) ==
    IF k > Len(v1) THEN 0
    ELSE (v1[k] - v2[k]) * (v1[k] - v2[k]) + SumSquares(v1, v2, k + 1)

GetVectorRMSE(v1, v2) ==
    IF Len(v1) # Len(v2)
    THEN [val |-> Zero, err |-> LengthErr(Len(v1), Len(v2))]
    ELSE [val |-> SqrtOfQuotient(SumSquares(v1, v2, 1), Len(v1)), err |-> VecNil]

\* sum / float64(n) of the rows' RMSEs: NaN when a term is NaN or when
\* there is no row (0/0).
QuotientOfSum(terms, n) ==
    IF n = 0 \/ \E i \in 1..Len(terms) : terms[i] = NaN THEN NaN
    ELSE [k |-> "mean", num |-> 0, den |-> n, terms |-> terms]

\* The loop of GetMatrixRMSE from row k (counted from 1).
RECURSIVE RMSERowsFrom(_, _, _, _)
RMSERowsFrom(m1, m2, k, terms) ==
    IF k > Len(m1) THEN [val |-> QuotientOfSum(terms, Len(m1)), err |-> MatNil]
    ELSE LET r == GetVectorRMSE(m1[k], m2[k])
         IN  IF r.err # VecNil
             THEN [val |-> Zero, err |-> Wrap(r.err, k - 1)]
             ELSE RMSERowsFrom(m1, m2, k + 1, Append(terms, r.val))

GetMatrixRMSE(m1, m2) ==
    IF Len(m1) # Len(m2)
    THEN [val |-> Zero, err |-> RowsErr(Len(m1), Len(m2))]
    ELSE RMSERowsFrom(m1, m2, 1, <<>>)

\* ------------------------------------------------------------------ sparse

\* An int as a wide integer.
Wide(n) == <<n \div Half, n % Half>>

\* Mutant of NonZeroFrom: zeros are stored too.
RECURSIVE NonZeroFromAll(_, _, _)
NonZeroFromAll(rowData, j, vec) ==
    IF j > Len(rowData) THEN vec
    ELSE NonZeroFromAll(rowData, j + 1, Store(vec, Wide(j - 1), rowData[j]))

\* The inner loop of GetSparseMatrixFromSlice from column j (counted from 1).
RECURSIVE NonZeroFrom(_, _, _)
NonZeroFrom(rowData, j, vec) ==
    IF j > Len(rowData) THEN vec
    ELSE IF rowData[j] # <<0, 0>>
         THEN NonZeroFrom(rowData, j + 1, Store(vec, Wide(j - 1), rowData[j]))
         ELSE NonZeroFrom(rowData, j + 1, vec)

GetSparseMatrixFromSlice(data) ==
    [m |-> [i \in 1..Len(data) |-> NonZeroFrom(data[i], 1, EmptyVec)],
     err |-> NoErr]

\* The orders in which a range over the map may visit its keys.
Orders(vec) ==
    {o \in [1..Cardinality(DOMAIN vec) -> DOMAIN vec] :
        \A x, y \in 1..Cardinality(DOMAIN vec) : o[x] = o[y] => x = y}

\* The values of vec in the order o of its keys.
InOrder(vec, o) == [k \in 1..Cardinality(DOMAIN vec) |-> vec[o[k]]]

\* What SparseMatrix.ToFloat64 may return for rows i.. of m: per row, the
\* stored values in one of the orders the map may be ranged over.
RECURSIVE ToFloat64From(_, _)
ToFloat64From(m, i) ==
    IF i > Len(m) THEN {<<>>}
    ELSE {<<InOrder(m[i], o)>> \o rest :
             o \in Orders(m[i]), rest \in ToFloat64From(m, i + 1)}

SparseToFloat64(m) == ToFloat64From(m, 1)

\* ------------------------------------------------------------------ calls

VecVals == {0, 1, 3}

Thresholds == {0, 1, 2}

MatRows == {<<>>, <<0>>, <<2>>, <<0, 2>>}

MaxIdxVals == {NegInf, Fin(1), Fin(3), Fin(5)}

DataVals == {<<0, 0>>, <<2, 0>>, <<5, 1>>}

Idle ==
    /\ input = [lines |-> <<>>, nl |-> FALSE]
    /\ file = <<>>
    /\ delimiter = <<>>
    /\ defaultVal = <<0, 0>>
    /\ intBits = 64
    /\ pos = 0
    /\ sparseMatrix = <<>>
    /\ matrix = <<>>
    /\ colDim = -1
    /\ row = 0

\* A call returns: only pc and ret change.
Return(fn, out) ==
    /\ pc' = "done"
    /\ ret' = [fn |-> fn, out |-> out]
    /\ UNCHANGED <<input, file, delimiter, defaultVal, intBits, pos,
                   sparseMatrix, matrix, colDim, row, args>>

InitVec ==
    /\ Idle
    /\ args \in [v1 : SeqsUpTo(VecVals, MaxVecLen),
                 v2 : SeqsUpTo(VecVals, MaxVecLen),
                 threshold : Thresholds]
    /\ pc = "call"
    /\ ret = [fn |-> "none", out |-> VecNil]

CallIsEqualVectors ==
    /\ pc = "call"
    /\ Return("IsEqualVectors",
              IsEqualVectors(args.v1, args.v2, args.threshold))

CallGetVectorRMSE ==
    /\ pc = "call"
    /\ Return("GetVectorRMSE", GetVectorRMSE(args.v1, args.v2))

SpecVec == InitVec /\ [][CallIsEqualVectors \/ CallGetVectorRMSE]_vars

InitMat ==
    /\ Idle
    /\ args \in [m1 : SeqsUpTo(MatRows, MaxRows),
                 m2 : SeqsUpTo(MatRows, MaxRows),
                 threshold : Thresholds]
    /\ pc = "call"
    /\ ret = [fn |-> "none", out |-> MatNil]

CallIsEqualMatrices ==
    /\ pc = "call"
    /\ Return("IsEqualMatrices",
              IsEqualMatrices(args.m1, args.m2, args.threshold))

CallGetMatrixRMSE ==
    /\ pc = "call"
    /\ Return("GetMatrixRMSE", GetMatrixRMSE(args.m1, args.m2))

SpecMat == InitMat /\ [][CallIsEqualMatrices \/ CallGetMatrixRMSE]_vars

\* Both RMSE functions, for what is said of the two together.
SpecRMSE ==
    /\ InitVec \/ InitMat
    /\ [][\/ "v1" \in DOMAIN args /\ CallGetVectorRMSE
          \/ "m1" \in DOMAIN args /\ CallGetMatrixRMSE]_vars

InitMaxIdx ==
    /\ Idle
    /\ args \in [v : SeqsUpTo(MaxIdxVals, MaxIdxLen)]
    /\ pc = "call"
    /\ ret = [fn |-> "none", out |-> [r |-> -1, err |-> "nil"]]

CallGetVectorMaxIdx ==
    /\ pc = "call"
    /\ Return("GetVectorMaxIdx", GetVectorMaxIdx(args.v))

SpecMaxIdx == InitMaxIdx /\ [][CallGetVectorMaxIdx]_vars

InitSparse ==
    /\ Idle
    /\ args \in [data : SeqsUpTo(SeqsUpTo(DataVals, MaxDataCols), MaxDataRows)]
    /\ pc = "call"
    /\ ret = [fn |-> "none", out |-> <<>>]

\* GetSparseMatrixFromSlice(data); the caller keeps the matrix.
CallGetSparseMatrixFromSlice ==
    /\ pc = "call"
    /\ pc' = "built"
    /\ ret' = [fn |-> "GetSparseMatrixFromSlice",
               out |-> GetSparseMatrixFromSlice(args.data)]
    /\ sparseMatrix' = GetSparseMatrixFromSlice(args.data).m
    /\ UNCHANGED <<input, file, delimiter, defaultVal, intBits, pos,
                   matrix, colDim, row, args>>

\* ToFloat64 of the matrix GetSparseMatrixFromSlice returned.
CallSparseToFloat64 ==
    /\ pc = "built"
    /\ ret.out.err = NoErr
    /\ \E res \in SparseToFloat64(sparseMatrix) : Return("ToFloat64", res)

SpecSparse ==
    InitSparse /\ [][CallGetSparseMatrixFromSlice \/ CallSparseToFloat64]_vars

\* ------------------------------------------------------------------ C5

\* C5: GetVectorRMSE and GetMatrixRMSE return an error or a number, never
\* NaN with no error.
C5_NoNaNWithoutError ==
    (pc = "done" /\ ret.fn \in {"GetVectorRMSE", "GetMatrixRMSE"})
    => ret.out.err.kind # "nil" \/ ret.out.val # NaN

\* ------------------------------------------------------------------ C7

Within(x, y, t) == x - y <= t /\ y - x <= t

\* C7: IsEqualVectors returns nil exactly when the lengths are equal and
\* every pair of elements is within the tolerance; unequal lengths are
\* reported with both lengths, and otherwise the smallest index whose
\* elements are not within the tolerance is reported with both values.
C7_IsEqualVectors ==
    (pc = "done" /\ ret.fn = "IsEqualVectors")
    => LET v1  == args.v1
           v2  == args.v2
           t   == args.threshold
           off == {i \in 1..Len(v1) : ~Within(v1[i], v2[i], t)}
       IN  IF Len(v1) # Len(v2)
           THEN ret.out = [kind |-> "different vector length", i |-> -1,
                           a |-> Len(v1), b |-> Len(v2)]
           ELSE /\ ret.out.kind = "nil" <=> off = {}
                /\ off # {} =>
                      LET i == CHOOSE i \in off : \A j \in off : i <= j
                      IN  ret.out = [kind |-> "element mismatch", i |-> i - 1,
                                     a |-> v1[i], b |-> v2[i]]

\* Elements 1 and 2 both differ by more than the tolerance: 1 is reported.
C7_Witness ==
    /\ pc = "done"
    /\ ret.fn = "IsEqualVectors"
    /\ args.v1 = <<0, 0, 0>>
    /\ args.v2 = <<1, 3, 3>>
    /\ args.threshold = 1
    /\ ret.out.kind = "element mismatch"
    /\ ret.out.i = 1

\* ------------------------------------------------------------------ C8

\* C8: IsEqualMatrices reports unequal row counts with both counts;
\* otherwise it returns nil exactly when IsEqualVectors succeeds on every
\* pair of rows, and else the IsEqualVectors error of the smallest failing
\* row, wrapped with that row's index.
C8_IsEqualMatrices ==
    (pc = "done" /\ ret.fn = "IsEqualMatrices")
    => LET m1   == args.m1
           m2   == args.m2
           t    == args.threshold
           fail == {r \in 1..Len(m1) : IsEqualVectors(m1[r], m2[r], t) # VecNil}
       IN  IF Len(m1) # Len(m2)
           THEN ret.out = [kind |-> "row matrix mismatch", index |-> -1,
                           a |-> Len(m1), b |-> Len(m2), cause |-> VecNil]
           ELSE /\ ret.out.kind = "nil" <=> fail = {}
                /\ fail # {} =>
                      LET r == CHOOSE r \in fail : \A q \in fail : r <= q
                      IN  ret.out = [kind |-> "matrix comparison at index",
                                     index |-> r - 1, a |-> 0, b |-> 0,
                                     cause |-> IsEqualVectors(m1[r], m2[r], t)]

\* Rows 1 and 2 both fail (row 2 at column 0): row 1 is the one reported.
C8_Witness ==
    /\ pc = "done"
    /\ ret.fn = "IsEqualMatrices"
    /\ args.m1 = <<<<0, 2>>, <<0>>, <<0>>>>
    /\ args.m2 = <<<<0, 2>>, <<>>, <<2>>>>
    /\ args.threshold = 1
    /\ ret.out.index = 1
    /\ ret.out.cause.kind = "different vector length"

\* ------------------------------------------------------------------ C9

\* C9: for a vector that is not empty GetVectorMaxIdx returns, with no
\* error, the smallest index of a greatest element; for the empty vector it
\* returns an error.
C9_FirstMax ==
    (pc = "done" /\ ret.fn = "GetVectorMaxIdx")
    => LET v == args.v
           r == ret.out.r
       IN  IF Len(v) = 0 THEN ret.out.err # "nil"
           ELSE /\ ret.out.err = "nil"
                /\ r \in 0..(Len(v) - 1)
                /\ \A j \in 1..Len(v) : ~FGt(v[j], v[r + 1])
                /\ \A j \in 1..r : FGt(v[r + 1], v[j])

\* [3, 5, 5, 1] gives 1.
C9_Witness ==
    /\ pc = "done"
    /\ ret.fn = "GetVectorMaxIdx"
    /\ args.v = <<Fin(3), Fin(5), Fin(5), Fin(1)>>
    /\ ret.out = [r |-> 1, err |-> "nil"]

\* ------------------------------------------------------------------ C10

\* The number of elements of s equal to x.
Count(s, x) == Cardinality({k \in 1..Len(s) : s[k] = x})

NonZeroCols(d) == {j \in 1..Len(d) : d[j] # <<0, 0>>}

\* C10: GetSparseMatrixFromSlice(d) returns, with no error, one row per row
\* of d, storing exactly the entries of d that are not zero; ToFloat64 of
\* it returns one row per row of d, holding, in some order, exactly the
\* values of that row of d that are not zero.
C10_SparseRoundTrip ==
    LET d == args.data
    IN  /\ (pc = "built" /\ ret.fn = "GetSparseMatrixFromSlice")
           => /\ ret.out.err = NoErr
              /\ Len(ret.out.m) = Len(d)
              /\ \A i \in 1..Len(d) :
                    /\ DOMAIN ret.out.m[i] = {<<0, j - 1>> : j \in NonZeroCols(d[i])}
                    /\ \A j \in NonZeroCols(d[i]) :
                          ret.out.m[i][<<0, j - 1>>] = d[i][j]
        /\ (pc = "done" /\ ret.fn = "ToFloat64")
           => /\ Len(ret.out) = Len(d)
              /\ \A i \in 1..Len(d) :
                    /\ Len(ret.out[i]) = Cardinality(NonZeroCols(d[i]))
                    /\ Count(ret.out[i], <<0, 0>>) = 0
                    /\ \A x \in DataVals \ {<<0, 0>>} :
                          Count(ret.out[i], x) = Count(d[i], x)

\* A row with a zero gives one value; a row [0.5, 2] may come back as [2, 0.5].
C10_Witness ==
    /\ pc = "done"
    /\ ret.fn = "ToFloat64"
    /\ args.data = <<<<<<0, 0>>, <<2, 0>>>>, <<<<5, 1>>, <<2, 0>>>>>>
    /\ ret.out = <<<<<<2, 0>>>>, <<<<2, 0>>, <<5, 1>>>>>>

=============================================================================
